---- MODULE Spec2Model ----
\* BlockingValidatorRunner (mini_benchmark): a blocking facade over the
\* asynchronous ValidatorRunnerImpl.  One calling thread runs Init() and
\* TriggerValidation(); the engine writes BenchmarkEvents to the storage file
\* concurrently; the boot-time and wall clocks advance on their own.
EXTENDS Integers, Sequences, FiniteSets, TLC

\* ---------------------------------------------------------------- bounds
MaxTasks == 2        \* settings handed to TriggerValidation, over all calls
MaxTicks == 1        \* free clock ticks (time passing outside usleep)
MaxTimeoutMs == 10   \* the positive per_test_timeout_ms option tried
MaxWallSteps == 1    \* forward adjustments of the wall clock

\* ------------------------------------------------------- program constants
kWaitBetweenRefreshMs == 20

kWaitBetweenRefreshUs == kWaitBetweenRefreshMs * 1000
TickUs == kWaitBetweenRefreshUs

Settings == {"A", "B"}
Statuses == {"kMinibenchmarkSuccess", "kMinibenchmarkModelInitFailed",
             "kMinibenchmarkPreValidationFailed"}
NoStatus == "none"
PerTestTimeouts == {0, MaxTimeoutMs}
\* the same with a negative option value
SignedTimeouts == {0 - MaxTimeoutMs, 0, MaxTimeoutMs}

RECURSIVE SeqsUpTo(_)
SeqsUpTo(n) ==
    IF n = 0 THEN {<<>>}
    ELSE LET shorter == SeqsUpTo(n - 1)
         IN  shorter \cup {Append(s, x) : s \in {q \in shorter : Len(q) = n - 1},
                                          x \in Settings}
Batches == SeqsUpTo(MaxTasks)

VARIABLES
    pc,                   \* position of the calling thread
    callId,               \* number of the last call that went past line 74
    tasksIssued,          \* settings handed to TriggerValidation so far
    per_test_timeout_ms_, \* constructor option
    for_settings,         \* argument of the call in flight (or of the last one)
    for_settings_obj,     \* unpacked copies, line 81-90
    store,                \* events in the file at storage_path_
    pending,              \* validations the engine was handed and has not written
    boot, wall,           \* Validator::BootTimeMicros / WallTimeMicros
    wallSteps,            \* wall-clock adjustments so far
    total_timeout_ms, deadline_us, within_timeout,
    numCompleted,         \* last value of GetNumCompletedResults()
    results,              \* local vector `results`
    result_settings,      \* local vector `result_settings`, lines 123-131
    storeAtFetch,         \* what the storage file held when line 108 ran
    doneAtFetch,          \* requests whose validation had finished by then
    idx,                  \* position of the loop of line 132
    returned,             \* value returned by the last completed call
    accepted,             \* whether the engine took the dispatch of this call
    dispatchBoot, dispatchWall,   \* clocks when line 91 ran
    nUnlink, nDispatch, nCountQuery, nFetch, \* collaborator uses in this call
    logTimeout, logMismatch,      \* warnings of lines 111 and 116 in this call
    implInitStatus,       \* what ValidatorRunnerImpl::Init returned, if Init
                          \* was the last operation of the calling thread
    initReturned,         \* what BlockingValidatorRunner::Init returned then
    otherPc,              \* a second thread's position in its own call
    otherUnlinkedIn       \* callId when that thread ran line 78, 0 before

runnerVars == <<pc, callId, tasksIssued, per_test_timeout_ms_, for_settings, for_settings_obj,
                total_timeout_ms, deadline_us, within_timeout, numCompleted,
                results, result_settings, storeAtFetch, doneAtFetch, idx, returned,
                accepted, dispatchBoot, dispatchWall,
                nUnlink, nDispatch, nCountQuery, nFetch, logTimeout, logMismatch>>
initVars == <<implInitStatus, initReturned>>
clockVars == <<boot, wall, wallSteps>>
engineVars == <<store, pending>>
otherVars == <<otherPc, otherUnlinkedIn>>
vars == <<runnerVars, initVars, clockVars, engineVars, otherVars>>

\* ------------------------------------------------------------ pure helpers
\* TFLiteSettings::UnPackTo followed by CreateTFLiteSettings: a deep copy of
\* the table; the copy compares equal to the original (operator== of
\* TFLiteSettingsT is structural).
UnPackTo(settings) == settings

\* The event a finished validation leaves in the storage file.  The runner
\* never reads the timestamps of the engine's events; they are left at 0.
EngineEvent(task) ==
    [tflite_settings |-> task.settings, event_type |-> "END",
     stage |-> "NONE", error_code |-> "kMinibenchmarkSuccess",
     boottime_us |-> 0, wallclock_us |-> 0, origin |-> task.call]

\* an error event whose timestamps are left unset
CreateBenchmarkEvent_NoClock(settings_obj, b, w) ==
    [tflite_settings |-> settings_obj, event_type |-> "ERROR",
     stage |-> "UNKNOWN", error_code |-> "kMinibenchmarkCompletionEventMissing",
     boottime_us |-> 0, wallclock_us |-> 0, origin |-> 0]

\* CreateBenchmarkEvent(..., BenchmarkEventType_ERROR, 0,
\*   CreateBenchmarkError(BenchmarkStage_UNKNOWN,
\*   kMinibenchmarkCompletionEventMissing), BootTimeMicros(), WallTimeMicros()).
\* origin 0 marks an event made by the runner itself.
CreateBenchmarkEvent(settings_obj, b, w) ==
    [tflite_settings |-> settings_obj, event_type |-> "ERROR",
     stage |-> "UNKNOWN", error_code |-> "kMinibenchmarkCompletionEventMissing",
     boottime_us |-> b, wallclock_us |-> w, origin |-> 0]

\* result_settings of lines 123-131: the settings embedded in each result.
ResultSettings(res) == [i \in DOMAIN res |-> UnPackTo(res[i].tflite_settings)]

\* a find that looks at the first result only
Found_FirstOnly(res_settings, settings_obj) ==
    /\ Len(res_settings) > 0
    /\ res_settings[1] = settings_obj

\* a find that looks at the last result only
Found_LastOnly(res_settings, settings_obj) ==
    /\ Len(res_settings) > 0
    /\ res_settings[Len(res_settings)] = settings_obj

\* std::find(result_settings.begin(), result_settings.end(), settings_obj)
\* != result_settings.end()
Found(res_settings, settings_obj) ==
    \E i \in DOMAIN res_settings : res_settings[i] = settings_obj

\* a total timeout without the margin of one extra test
TotalTimeoutMs_NoMargin(per_test, n) == per_test * n

\* int64_t total_timeout_ms = per_test_timeout_ms_ * (1 + for_settings.size())
\* The product is formed in size_t and converted back to int64_t; for the
\* magnitudes of a timeout in milliseconds and a batch size the wrap-around
\* leaves the signed product, negative timeouts included.
TotalTimeoutMs(per_test, n) == per_test * (1 + n)

\* int64_t deadline_us = BootTimeMicros() + total_timeout_ms * 1000
DeadlineUs(now, total_ms) == now + total_ms * 1000

\* a loop condition that also waits when the count equals the batch size
StillWaiting_OffByOne(count, n) == count <= n

\* the loop condition's first operand, line 102-103
StillWaiting(count, n) == count < n

\* the loop condition's second operand, line 104
BeforeDeadline(now, deadline) == now < deadline

\* an Init that swallows the engine's status
InitResult_Success(impl_status) == "kMinibenchmarkSuccess"

\* what BlockingValidatorRunner::Init hands back for the engine's status
InitResult(impl_status) == impl_status

\* the validation of the i-th settings of a batch
TaskOf(call, batch, i) == [call |-> call, pos |-> i, settings |-> batch[i]]

\* tasks handed to the engine by one dispatch
TasksOf(call, batch) == {TaskOf(call, batch, i) : i \in DOMAIN batch}

N == Len(for_settings)

\* ------------------------------------------------------------------- Init
\* the state after construction, but for the timeout option
Constructed ==
    /\ pc = "idle"
    /\ callId = 0
    /\ tasksIssued = 0
    /\ for_settings = <<>>
    /\ for_settings_obj = <<>>
    /\ store = <<>>
    /\ pending = {}
    /\ boot = 0
    /\ wall = 0
    /\ wallSteps = 0
    /\ total_timeout_ms = 0
    /\ deadline_us = 0
    /\ within_timeout = TRUE
    /\ numCompleted = 0
    /\ results = <<>>
    /\ result_settings = <<>>
    /\ storeAtFetch = <<>>
    /\ doneAtFetch = {}
    /\ idx = 0
    /\ returned = <<>>
    /\ accepted = FALSE
    /\ dispatchBoot = 0
    /\ dispatchWall = 0
    /\ nUnlink = 0
    /\ nDispatch = 0
    /\ nCountQuery = 0
    /\ nFetch = 0
    /\ logTimeout = FALSE
    /\ logMismatch = FALSE
    /\ implInitStatus = NoStatus
    /\ initReturned = NoStatus
    /\ otherPc = "none"
    /\ otherUnlinkedIn = 0

Init ==
    /\ per_test_timeout_ms_ \in PerTestTimeouts
    /\ Constructed

\* ------------------------------------------------- BlockingValidatorRunner
\* MinibenchmarkStatus Init(): return validator_runner_impl_->Init();
BlockingValidatorRunner_Init ==
    /\ pc = "idle"
    /\ \E s \in Statuses :
          /\ implInitStatus' = s
          /\ initReturned' = InitResult(s)
    /\ UNCHANGED <<runnerVars, clockVars, engineVars,
                   otherVars>>

\* an emptiness test that never fires
EmptyBatch_Never(batch) == FALSE

\* line 72: for_settings.empty()
EmptyBatch(batch) == Len(batch) = 0

\* entry of TriggerValidation(for_settings): the locals of a new call
TriggerValidation_Enter ==
    /\ pc = "idle"
    /\ \E batch \in Batches :
          /\ tasksIssued + Len(batch) <= MaxTasks
          /\ for_settings' = batch
          /\ tasksIssued' = tasksIssued + Len(batch)
    /\ pc' = "check_empty"
    /\ UNCHANGED callId
    /\ for_settings_obj' = <<>>
    /\ total_timeout_ms' = 0
    /\ deadline_us' = 0
    /\ within_timeout' = TRUE
    /\ numCompleted' = 0
    /\ results' = <<>>
    /\ result_settings' = <<>>
    /\ storeAtFetch' = <<>>
    /\ doneAtFetch' = {}
    /\ idx' = 0
    /\ returned' = <<>>
    /\ accepted' = FALSE
    /\ dispatchBoot' = 0
    /\ dispatchWall' = 0
    /\ nUnlink' = 0
    /\ nDispatch' = 0
    /\ nCountQuery' = 0
    /\ nFetch' = 0
    /\ logTimeout' = FALSE
    /\ logMismatch' = FALSE
    /\ implInitStatus' = NoStatus
    /\ initReturned' = NoStatus
    /\ UNCHANGED <<per_test_timeout_ms_, clockVars, engineVars,
                   otherVars>>

callLocals == <<total_timeout_ms, deadline_us, within_timeout, numCompleted,
                results, result_settings, storeAtFetch, doneAtFetch, idx,
                logTimeout, logMismatch>>
callGhosts == <<accepted, dispatchBoot, dispatchWall,
                nUnlink, nDispatch, nCountQuery, nFetch>>

\* lines 72-74: if (for_settings.empty()) return {};
TriggerValidation_CheckEmpty ==
    /\ pc = "check_empty"
    /\ IF EmptyBatch(for_settings)
       THEN /\ returned' = <<>>
            /\ pc' = "idle"
       ELSE /\ pc' = "unlink"
            /\ UNCHANGED returned
    /\ UNCHANGED <<callId, tasksIssued, per_test_timeout_ms_, for_settings, for_settings_obj,
                   callLocals, callGhosts, initVars, clockVars, engineVars,
                   otherVars>>

\* line 78: (void)unlink(storage_path_.c_str());
Unlinked(file) == <<>>

\* lines 78-90: delete the storage file, copy the settings
TriggerValidation_Unlink ==
    /\ pc = "unlink"
    /\ store' = Unlinked(store)
    /\ nUnlink' = nUnlink + 1
    /\ callId' = callId + 1
    /\ for_settings_obj' = [i \in DOMAIN for_settings |-> UnPackTo(for_settings[i])]
    /\ pc' = "dispatch"
    /\ UNCHANGED <<tasksIssued, per_test_timeout_ms_, for_settings, returned,
                   callLocals, accepted, dispatchBoot, dispatchWall, nDispatch, nCountQuery,
                   nFetch, initVars, clockVars, pending,
                   otherVars>>

\* line 91: validator_runner_impl_->TriggerValidationAsync(std::move(to_be_run));
\* the engine either takes the batch or returns without starting anything.
TriggerValidation_Dispatch ==
    /\ pc = "dispatch"
    /\ \E ok \in BOOLEAN :
          /\ accepted' = ok
          /\ pending' = IF ok THEN pending \cup TasksOf(callId, for_settings)
                              ELSE pending
    /\ nDispatch' = nDispatch + 1
    /\ dispatchBoot' = boot
    /\ dispatchWall' = wall
    /\ pc' = "deadline"
    /\ UNCHANGED <<callId, tasksIssued, per_test_timeout_ms_, for_settings, for_settings_obj,
                   returned, callLocals, nUnlink, nCountQuery, nFetch,
                   initVars, clockVars, store,
                   otherVars>>

\* lines 95-98
TriggerValidation_Deadline ==
    /\ pc = "deadline"
    /\ total_timeout_ms' = TotalTimeoutMs(per_test_timeout_ms_, N)
    /\ deadline_us' = DeadlineUs(boot, TotalTimeoutMs(per_test_timeout_ms_, N))
    /\ within_timeout' = TRUE
    /\ pc' = "poll_count"
    /\ UNCHANGED <<callId, tasksIssued, per_test_timeout_ms_, for_settings, for_settings_obj,
                   returned, numCompleted, results, result_settings,
                   storeAtFetch, doneAtFetch, idx,
                   logTimeout, logMismatch, callGhosts, initVars, clockVars, engineVars,
                   otherVars>>

\* validator_runner_impl_->GetNumCompletedResults(): the events in the file
GetNumCompletedResults(file) == Len(file)

\* a fetch that is skipped once the deadline has passed
GetCompletedResults_InTimeOnly(file) == IF within_timeout THEN file ELSE <<>>

\* a fetch that takes only as many events as the last count reported
GetCompletedResults_UpToCount(file) == SubSeq(file, 1, numCompleted)

\* validator_runner_impl_->GetCompletedResults(): the events in the file
GetCompletedResults(file) == file

\* line 102-103: the first operand of the loop condition
TriggerValidation_PollCount ==
    /\ pc = "poll_count"
    /\ numCompleted' = GetNumCompletedResults(store)
    /\ nCountQuery' = nCountQuery + 1
    /\ pc' = IF StillWaiting(GetNumCompletedResults(store), N)
             THEN "poll_time" ELSE "fetch"
    /\ UNCHANGED <<callId, tasksIssued, per_test_timeout_ms_, for_settings, for_settings_obj,
                   returned, total_timeout_ms, deadline_us, within_timeout,
                   results, result_settings, storeAtFetch, doneAtFetch, idx,
                   logTimeout, logMismatch, accepted, dispatchBoot, dispatchWall, nUnlink, nDispatch,
                   nFetch, initVars, clockVars, engineVars,
                   otherVars>>

\* line 104: (within_timeout = Validator::BootTimeMicros() < deadline_us)
TriggerValidation_PollTime ==
    /\ pc = "poll_time"
    /\ within_timeout' = BeforeDeadline(boot, deadline_us)
    /\ pc' = IF BeforeDeadline(boot, deadline_us) THEN "sleep" ELSE "fetch"
    /\ UNCHANGED <<callId, tasksIssued, per_test_timeout_ms_, for_settings, for_settings_obj,
                   returned, total_timeout_ms, deadline_us, numCompleted,
                   results, result_settings, storeAtFetch, doneAtFetch, idx,
                   logTimeout, logMismatch, callGhosts, initVars, clockVars, engineVars,
                   otherVars>>

\* line 105: usleep(absl::ToInt64Microseconds(kWaitBetweenRefresh));
TriggerValidation_Sleep ==
    /\ pc = "sleep"
    /\ boot' = boot + kWaitBetweenRefreshUs
    /\ wall' = wall + kWaitBetweenRefreshUs
    /\ pc' = "poll_count"
    /\ UNCHANGED <<callId, tasksIssued, per_test_timeout_ms_, for_settings, for_settings_obj,
                   returned, callLocals, callGhosts, initVars, wallSteps,
                   engineVars,
                   otherVars>>

\* line 110-120: which warning is logged
TimeoutWarning(within) == ~within
MismatchWarning(within, n, nresults) == within /\ n # nresults

\* lines 108-131: fetch the results, log, unpack their settings
TriggerValidation_Fetch ==
    /\ pc = "fetch"
    /\ results' = GetCompletedResults(store)
    /\ nFetch' = nFetch + 1
    /\ logTimeout' = TimeoutWarning(within_timeout)
    /\ logMismatch' = MismatchWarning(within_timeout, N,
                                      Len(GetCompletedResults(store)))
    /\ result_settings' = ResultSettings(GetCompletedResults(store))
    /\ storeAtFetch' = store
    /\ doneAtFetch' = {i \in DOMAIN for_settings :
                          accepted /\ TaskOf(callId, for_settings, i) \notin pending}
    /\ idx' = 1
    /\ pc' = "reconcile"
    /\ UNCHANGED <<callId, tasksIssued, per_test_timeout_ms_, for_settings, for_settings_obj,
                   returned, total_timeout_ms, deadline_us, within_timeout,
                   numCompleted, accepted, dispatchBoot, dispatchWall, nUnlink,
                   nDispatch, nCountQuery, initVars, clockVars, engineVars,
                   otherVars>>

\* an error event put in front of the results instead of behind them
AddMissing_Prepend(res, res_settings, settings_obj, b, w) ==
    IF Found(res_settings, settings_obj)
    THEN res
    ELSE <<CreateBenchmarkEvent(settings_obj, b, w)>> \o res

\* a search that runs over `results` (error events already added included)
\* instead of result_settings
AddMissing_SearchResults(res, res_settings, settings_obj, b, w) ==
    IF Found(ResultSettings(res), settings_obj)
    THEN res
    ELSE Append(res, CreateBenchmarkEvent(settings_obj, b, w))

\* lines 133-144: one iteration of the loop over for_settings_obj
AddMissing(res, res_settings, settings_obj, b, w) ==
    IF Found(res_settings, settings_obj)
    THEN res
    ELSE Append(res, CreateBenchmarkEvent(settings_obj, b, w))

TriggerValidation_Reconcile ==
    /\ pc = "reconcile"
    /\ idx <= Len(for_settings_obj)
    /\ results' = AddMissing(results, result_settings, for_settings_obj[idx],
                             boot, wall)
    /\ idx' = idx + 1
    /\ UNCHANGED <<pc, callId, tasksIssued, per_test_timeout_ms_, for_settings,
                   for_settings_obj, returned, total_timeout_ms, deadline_us,
                   within_timeout, numCompleted, result_settings, storeAtFetch,
                   doneAtFetch, logTimeout, logMismatch, callGhosts, initVars, clockVars, engineVars,
                   otherVars>>

\* a return that dispatches the batch again after a timeout
TriggerValidation_Return_Retry ==
    /\ pc = "reconcile"
    /\ idx > Len(for_settings_obj)
    /\ IF within_timeout
       THEN /\ returned' = results
            /\ pc' = "idle"
       ELSE /\ pc' = "dispatch"
            /\ UNCHANGED returned
    /\ UNCHANGED <<callId, tasksIssued, per_test_timeout_ms_, for_settings, for_settings_obj,
                   callLocals, callGhosts, initVars, clockVars, engineVars,
                   otherVars>>

\* line 146: return results;
TriggerValidation_Return ==
    /\ pc = "reconcile"
    /\ idx > Len(for_settings_obj)
    /\ returned' = results
    /\ pc' = "idle"
    /\ UNCHANGED <<callId, tasksIssued, per_test_timeout_ms_, for_settings, for_settings_obj,
                   callLocals, callGhosts, initVars, clockVars, engineVars,
                   otherVars>>

\* ------------------------------------------------------------- the engine
\* A dispatched validation finishes and its event is appended to the file at
\* the storage path (created again if it was unlinked).  Validations are never
\* cancelled, so this can happen after the call that dispatched them returned.
EngineWrite ==
    /\ \E t \in pending :
          /\ store' = Append(store, EngineEvent(t))
          /\ pending' = pending \ {t}
    /\ UNCHANGED <<runnerVars, initVars, clockVars,
                   otherVars>>

\* -------------------------------------------------------------- the clocks
Tick ==
    /\ boot < MaxTicks * TickUs
    /\ boot' = boot + TickUs
    /\ wall' = wall + TickUs
    /\ UNCHANGED <<runnerVars, initVars, wallSteps, engineVars,
                   otherVars>>

\* the wall clock is set forward
WallStep ==
    /\ wallSteps < MaxWallSteps
    /\ wallSteps' = wallSteps + 1
    /\ wall' = wall + TickUs
    /\ UNCHANGED <<runnerVars, initVars, boot, engineVars,
                   otherVars>>

Next ==
    \/ BlockingValidatorRunner_Init
    \/ TriggerValidation_Enter
    \/ TriggerValidation_CheckEmpty
    \/ TriggerValidation_Unlink
    \/ TriggerValidation_Dispatch
    \/ TriggerValidation_Deadline
    \/ TriggerValidation_PollCount
    \/ TriggerValidation_PollTime
    \/ TriggerValidation_Sleep
    \/ TriggerValidation_Fetch
    \/ TriggerValidation_Reconcile
    \/ TriggerValidation_Return
    \/ EngineWrite
    \/ Tick
    \/ WallStep

Spec == Init /\ [][Next]_vars

\* a step of the calling thread inside TriggerValidation
CallStep ==
    \/ TriggerValidation_CheckEmpty
    \/ TriggerValidation_Unlink
    \/ TriggerValidation_Dispatch
    \/ TriggerValidation_Deadline
    \/ TriggerValidation_PollCount
    \/ TriggerValidation_PollTime
    \/ TriggerValidation_Sleep
    \/ TriggerValidation_Fetch
    \/ TriggerValidation_Reconcile
    \/ TriggerValidation_Return

\* TriggerValidation alone, with the engine and the boot clock, for every sign
\* of the timeout option: Init() and adjustments of the wall clock, which the
\* poll loop does not read, are left out.
PollInit ==
    /\ per_test_timeout_ms_ \in SignedTimeouts
    /\ Constructed

PollNext ==
    \/ TriggerValidation_Enter
    \/ CallStep
    \/ EngineWrite
    \/ Tick

PollSpec == PollInit /\ [][PollNext]_vars

\* The calling thread keeps running (usleep returns, no statement of
\* TriggerValidation blocks); nothing is assumed of the engine.
FairSpec == PollSpec /\ WF_vars(CallStep)

\* ---------------------------------------- a second, overlapping call
\* the call id under which the engine files the other thread's request
OtherCall == 0 - 1

\* line 78 run by a second thread while this thread's call is in flight
OtherCall_Unlink ==
    /\ pc # "idle"
    /\ otherPc = "none"
    /\ store' = Unlinked(store)
    /\ otherPc' = "unlinked"
    /\ otherUnlinkedIn' = callId
    /\ UNCHANGED <<runnerVars, initVars, clockVars, pending>>

\* line 91 run by the second thread: its one request goes to the engine
OtherCall_Dispatch ==
    /\ otherPc = "unlinked"
    /\ \E s \in Settings :
          pending' = pending \cup {[call |-> OtherCall, pos |-> 1, settings |-> s]}
    /\ otherPc' = "dispatched"
    /\ UNCHANGED <<runnerVars, initVars, clockVars, store, otherUnlinkedIn>>

\* TriggerValidation called on two threads with the same storage path: this
\* thread's calls, and the file operations of one call of the second thread,
\* which begins while a call of this thread is in flight. The boot clock
\* advances by this thread's sleeps only.
OverlapNext ==
    \/ TriggerValidation_Enter
    \/ CallStep
    \/ EngineWrite
    \/ OtherCall_Unlink
    \/ OtherCall_Dispatch

OverlapSpec == Init /\ [][OverlapNext]_vars

\* ================================================================= claims
\* a non-empty call has returned and nothing was called since, except Init
Completed == pc = "idle" /\ N > 0

Synthesized(r) == r.origin = 0

\* the missing-completion error event for one request
IsMissingRecord(r, settings) ==
    /\ r.event_type = "ERROR"
    /\ r.stage = "UNKNOWN"
    /\ r.error_code = "kMinibenchmarkCompletionEventMissing"
    /\ r.tflite_settings = settings

Injective(f) == \A a, b \in DOMAIN f : f[a] = f[b] => a = b

\* the records of `recs` can be assigned one to one to the requests of
\* `batch`, each record carrying the settings of its request
OnePerRequest(recs, batch) ==
    /\ Len(recs) = Len(batch)
    /\ \E f \in [DOMAIN batch -> DOMAIN recs] :
          /\ Injective(f)
          /\ \A i \in DOMAIN batch : recs[f[i]].tflite_settings = batch[i]

Distinct(batch) == \A i, j \in DOMAIN batch : batch[i] = batch[j] => i = j

HasDuplicates(batch) == ~Distinct(batch)

\* the requests of the last call whose validation the engine has not written
Unwritten ==
    {i \in DOMAIN for_settings :
        \/ ~accepted
        \/ [call |-> callId, pos |-> i, settings |-> for_settings[i]] \in pending}

\* the store held, when it was fetched, one event per request and no other
FetchedOnePerRequest ==
    /\ Len(result_settings) = N
    /\ \A i \in DOMAIN for_settings :
          \E j \in DOMAIN result_settings : result_settings[j] = for_settings[i]

\* C1: after a completed call on a non-empty batch the returned sequence holds
\* exactly one record per request position, genuine or synthesized, none
\* twice and none left out.
C1_OneRecordPerRequest ==
    Completed => OnePerRequest(returned, for_settings)

\* C2: the returned sequence of a non-empty batch of size N has length N,
\* however the poll loop ended and whatever the store held.
C2_LengthIsN ==
    Completed => Len(returned) = N

C4_MissingAreSynthesized ==
    Completed =>
        /\ Len(returned) = N
        /\ \A i \in Unwritten :
              \E j \in DOMAIN returned :
                 /\ Synthesized(returned[j])
                 /\ IsMissingRecord(returned[j], for_settings[i])

\* C5 (P5): a batch with structurally equal settings still gets one record
\* per position: the returned sequence has length N.
C5_DuplicatesKeepSlots ==
    (Completed /\ HasDuplicates(for_settings)) => Len(returned) = N

\* C6 (P4): no event the engine produced for an earlier call appears in the
\* sequence a later call returns.
C6_NoLeakAcrossCalls ==
    Completed =>
        \A j \in DOMAIN returned : returned[j].origin \in {0, callId}

\* C7 (P3): a call on an empty batch returns an empty sequence; it does not
\* unlink the storage file, dispatch, query the count or fetch, and the store
\* and the engine's work are as they were.
C7_EmptyNoEffects ==
    /\ []((pc \in {"check_empty", "idle"} /\ Len(for_settings) = 0)
             => /\ nUnlink = 0 /\ nDispatch = 0
                /\ nCountQuery = 0 /\ nFetch = 0
                /\ returned = <<>>)
    /\ [][((pc = "idle" /\ pc' = "check_empty" /\ Len(for_settings') = 0)
            \/ (pc = "check_empty" /\ pc' # pc /\ Len(for_settings) = 0))
              => /\ UNCHANGED <<engineVars, clockVars>>
                 /\ pc' \in {"check_empty", "idle"}]_vars

C7_Witness ==
    /\ pc = "idle"
    /\ Len(for_settings) = 0
    /\ tasksIssued > 0
    /\ returned = <<>>
    /\ Len(store) > 0
    /\ pending # {}

\* C8: when the engine does not take the dispatch and nothing is written, the
\* call returns after the deadline with N records, the i-th being the
\* completion-event-missing error of the i-th request.
C8_RejectedDispatch ==
    (Completed /\ ~accepted /\ result_settings = <<>>)
        => /\ Len(returned) = N
           /\ \A i \in DOMAIN for_settings :
                 /\ Synthesized(returned[i])
                 /\ IsMissingRecord(returned[i], for_settings[i])
           /\ ~within_timeout
           /\ boot >= deadline_us

C8_Witness ==
    /\ Completed
    /\ ~accepted
    /\ result_settings = <<>>
    /\ N = 2
    /\ HasDuplicates(for_settings)
    /\ per_test_timeout_ms_ > 0
    /\ Len(returned) = 2

\* C9 (P6): the boot-time and wall-clock timestamps of every synthesized
\* record are at least the clock values at the dispatch of the same call.
C9_SynthesizedAfterDispatch ==
    /\ \A j \in DOMAIN results :
          Synthesized(results[j])
             => /\ results[j].boottime_us >= dispatchBoot
                /\ results[j].wallclock_us >= dispatchWall
    /\ \A j \in DOMAIN returned :
          Synthesized(returned[j])
             => /\ returned[j].boottime_us >= dispatchBoot
                /\ returned[j].wallclock_us >= dispatchWall

C9_Witness ==
    /\ Completed
    /\ dispatchBoot > 0
    /\ \E j \in DOMAIN returned :
          /\ Synthesized(returned[j])
          /\ returned[j].boottime_us > dispatchBoot
          /\ returned[j].wallclock_us > dispatchWall
          /\ returned[j].wallclock_us # returned[j].boottime_us

\* C10: Init returns the status of the engine's Init, whatever it is, and
\* changes nothing else: no unlink, no dispatch, no runner state.
C10_InitForwardsStatus ==
    /\ [](initReturned = implInitStatus)
    /\ [][implInitStatus' # implInitStatus /\ implInitStatus' \in Statuses
            => /\ initReturned' = implInitStatus'
               /\ UNCHANGED <<runnerVars, engineVars, clockVars>>]_vars

C10_Witness ==
    /\ initReturned = "kMinibenchmarkModelInitFailed"
    /\ implInitStatus = "kMinibenchmarkModelInitFailed"
    /\ Len(store) > 0
    /\ pending # {}

\* C11: the poll loop goes on to the fetch exactly when the count is at least
\* N or the boot clock is not before the deadline, sleeps only while the last
\* count was below N and the clock was before the deadline, and every call
\* returns, also when the engine writes nothing.
C11_PollLoopEnds ==
    /\ [][(pc = "poll_count" /\ pc' # pc)
             => /\ (pc' = "fetch") <=> (Len(store) >= N)
                /\ (pc' = "poll_time") <=> (Len(store) < N)]_vars
    /\ [][(pc = "poll_time" /\ pc' # pc)
             => /\ (pc' = "fetch") <=> (boot >= deadline_us)
                /\ (pc' = "sleep") <=> (boot < deadline_us)]_vars
    /\ [](pc = "sleep" => (numCompleted < N /\ within_timeout))
    /\ (pc # "idle") ~> (pc = "idle")

C11_Witness ==
    /\ Completed
    /\ ~accepted
    /\ Len(store) = 0
    /\ per_test_timeout_ms_ > 0
    /\ ~within_timeout
    /\ nCountQuery > 2
    /\ Len(returned) = N

\* C12: the deadline is the boot clock read at line 96 plus
\* per_test_timeout_ms_ * (1 + N) * 1000; with a timeout of zero or less the
\* loop ends on its first check, without a sleep, and the store is still
\* fetched and reconciled.
C12_Deadline ==
    /\ [][(pc = "deadline" /\ pc' # pc)
             => /\ deadline_us' = boot + per_test_timeout_ms_ * (1 + N) * 1000
                /\ total_timeout_ms' = per_test_timeout_ms_ * (1 + N)]_vars
    /\ [](per_test_timeout_ms_ <= 0
             => /\ pc # "sleep"
                /\ nCountQuery <= 1
                /\ deadline_us <= boot
                /\ (pc = "reconcile" \/ Completed)
                      => (nCountQuery = 1 /\ nFetch = 1
                          /\ SubSeq(results, 1, Len(storeAtFetch)) = storeAtFetch))

C12_Witness ==
    /\ Completed
    /\ per_test_timeout_ms_ < 0
    /\ N = 2
    /\ Len(storeAtFetch) = 1
    /\ Len(returned) = 2
    /\ ~within_timeout

\* a record with its timestamps blanked
NoTime(r) == [r EXCEPT !.boottime_us = 0, !.wallclock_us = 0]

NoTimes(recs) == [j \in DOMAIN recs |-> NoTime(recs[j])]

\* the request positions whose settings equal those of no fetched record
Unmatched(fetched, batch) ==
    {i \in DOMAIN batch :
        \A j \in DOMAIN fetched : fetched[j].tflite_settings # batch[i]}

\* the k-th smallest member of a finite set of numbers
RECURSIVE Kth(_, _)
Kth(set, k) ==
    LET least == CHOOSE x \in set : \A y \in set : x <= y
    IN  IF k = 1 THEN least ELSE Kth(set \ {least}, k - 1)

\* what a call returns, timestamps aside, as a function of the batch and of
\* the store at the fetch alone
Outcome(fetched, batch) ==
    LET missing == Unmatched(fetched, batch)
    IN  NoTimes(fetched) \o
        [k \in 1..Cardinality(missing) |->
            [tflite_settings |-> batch[Kth(missing, k)], event_type |-> "ERROR",
             stage |-> "UNKNOWN",
             error_code |-> "kMinibenchmarkCompletionEventMissing",
             boottime_us |-> 0, wallclock_us |-> 0, origin |-> 0]]

\* C13: within_timeout decides the log line only: timestamps aside, what a
\* call returns is a function of its batch and of the store at the fetch, the
\* same whether polling ended by count or by deadline, and the store is
\* fetched on both paths.
C13_TimeoutOnlyLogs ==
    Completed =>
        /\ nFetch = 1
        /\ NoTimes(returned) = Outcome(storeAtFetch, for_settings)
        /\ logTimeout = ~within_timeout

C13_Witness ==
    /\ Completed
    /\ ~within_timeout
    /\ Len(storeAtFetch) = N
    /\ FetchedOnePerRequest
    /\ returned = storeAtFetch

\* C14: in the returned sequence the fetched records come first, in the order
\* of the store, and the synthesized records follow in the order of their
\* request positions.
C14_GenuineThenSynthesized ==
    Completed =>
        LET genuine == {j \in DOMAIN returned : ~Synthesized(returned[j])}
            made == DOMAIN returned \ genuine
        IN  /\ \A j \in made, k \in genuine : k < j
            /\ SubSeq(returned, 1, Cardinality(genuine)) = storeAtFetch
            /\ \E f \in [made -> DOMAIN for_settings] :
                  /\ \A j, k \in made : j < k => f[j] < f[k]
                  /\ \A j \in made :
                        returned[j].tflite_settings = for_settings[f[j]]

C14_Witness ==
    /\ Completed
    /\ N = 2
    /\ Distinct(for_settings)
    /\ Len(storeAtFetch) = 1
    /\ storeAtFetch[1].tflite_settings = for_settings[2]
    /\ Len(returned) = 2
    /\ ~Synthesized(returned[1])
    /\ Synthesized(returned[2])
    /\ returned[2].tflite_settings = for_settings[1]

\* `longer` is `shorter` with events appended, or the same file
Extends(longer, shorter) ==
    /\ Len(longer) >= Len(shorter)
    /\ SubSeq(longer, 1, Len(shorter)) = shorter

\* C15: a non-empty call unlinks the storage file once, before its single
\* dispatch; between the dispatch and the return the file is only appended
\* to; the results are fetched once, after at least one count query, and the
\* batch is not dispatched again after a timeout.
C15_StepOrder ==
    /\ [](pc \in {"check_empty", "unlink"}
             => (nUnlink = 0 /\ nDispatch = 0 /\ nCountQuery = 0 /\ nFetch = 0))
    /\ [](pc = "dispatch"
             => (nUnlink = 1 /\ nDispatch = 0 /\ nCountQuery = 0 /\ nFetch = 0))
    /\ [](pc = "deadline"
             => (nUnlink = 1 /\ nDispatch = 1 /\ nCountQuery = 0 /\ nFetch = 0))
    /\ [](pc \in {"poll_count", "poll_time", "sleep", "fetch"}
             => (nUnlink = 1 /\ nDispatch = 1 /\ nFetch = 0))
    /\ [](pc = "fetch" => nCountQuery >= 1)
    /\ []((pc = "reconcile" \/ Completed)
             => (nUnlink = 1 /\ nDispatch = 1 /\ nCountQuery >= 1 /\ nFetch = 1))
    /\ [][nUnlink' > nUnlink => (store' = <<>> /\ nDispatch = 0 /\ nDispatch' = 0)]_vars
    /\ [][pc \notin {"idle", "check_empty", "unlink"} => Extends(store', store)]_vars
    /\ [][nFetch' > nFetch => (pc = "fetch" /\ pc' = "reconcile")]_vars

C15_Witness ==
    /\ Completed
    /\ ~within_timeout
    /\ per_test_timeout_ms_ > 0
    /\ nCountQuery >= 2
    /\ Unwritten # {}
    /\ \E j \in DOMAIN returned : Synthesized(returned[j])
    /\ nUnlink = 1
    /\ nDispatch = 1
    /\ nFetch = 1

\* C16: the timeout warning is logged exactly when the loop ended on the
\* deadline with the count below N, and then the mismatch warning is not
\* logged and the fetch and the reconciliation still run; the mismatch
\* warning is logged only when polling ended within the timeout and fewer
\* results than requests were fetched.
C16_Warnings ==
    (pc = "reconcile" \/ Completed) =>
        /\ logTimeout <=> (~within_timeout /\ numCompleted < N)
        /\ logTimeout => (~logMismatch /\ nFetch = 1)
        /\ Completed => Len(returned) >= Len(storeAtFetch)
        /\ logMismatch => (within_timeout /\ Len(storeAtFetch) < N)

\* C18: the returned sequence is the M fetched records, unchanged and
\* unfiltered, followed by one synthesized record per request position whose
\* settings equal those of no fetched record: its length is M plus the number
\* of such positions, a fetched record that matches no request is still
\* returned, and no settings with a fetched match get a synthesized record.
C18_FetchedPlusUnmatched ==
    Completed =>
        LET M == Len(storeAtFetch)
            missing == Unmatched(storeAtFetch, for_settings)
        IN  /\ Len(returned) = M + Cardinality(missing)
            /\ \A j \in 1..M : returned[j] = storeAtFetch[j]
            /\ \A k \in 1..Cardinality(missing) :
                  /\ Synthesized(returned[M + k])
                  /\ IsMissingRecord(returned[M + k],
                                     for_settings[Kth(missing, k)])
            /\ \A j \in DOMAIN returned : \A f \in 1..M :
                  Synthesized(returned[j]) =>
                      returned[j].tflite_settings # storeAtFetch[f].tflite_settings

\* a fetched record that matches no request is returned in front of the
\* synthesized record of the one request
C18_Witness ==
    /\ Completed
    /\ N = 1
    /\ Len(storeAtFetch) = 1
    /\ storeAtFetch[1].tflite_settings # for_settings[1]
    /\ Len(returned) = 2
    /\ returned[1] = storeAtFetch[1]
    /\ IsMissingRecord(returned[2], for_settings[1])

\* C19: the engine only appends and the call clears the file before its
\* dispatch only, so the fetch returns at least as many records as the last
\* count query saw: at least N when the loop ended on the count, and a record
\* appended between the last count query and the fetch, after the deadline
\* included, is returned as a genuine result.
C19_FetchAtLeastCount ==
    /\ pc \in {"poll_time", "sleep", "fetch"} => Len(store) >= numCompleted
    /\ (pc = "reconcile" \/ Completed) =>
          /\ Len(storeAtFetch) >= numCompleted
          /\ Len(result_settings) = Len(storeAtFetch)
          /\ (within_timeout => (numCompleted >= N /\ Len(storeAtFetch) >= N))
          /\ \A k \in DOMAIN storeAtFetch :
                /\ results[k] = storeAtFetch[k]
                /\ ~Synthesized(results[k])
                /\ result_settings[k] = storeAtFetch[k].tflite_settings
    /\ Completed =>
          \A k \in DOMAIN storeAtFetch :
              /\ returned[k] = storeAtFetch[k]
              /\ \A j \in DOMAIN returned :
                    Synthesized(returned[j]) =>
                        returned[j].tflite_settings # storeAtFetch[k].tflite_settings

\* the loop ended on the deadline having counted no event, the validation
\* finished before the fetch, and its event came back as the result
C19_Witness ==
    /\ Completed
    /\ ~within_timeout
    /\ numCompleted = 0
    /\ Len(storeAtFetch) = N
    /\ \A k \in DOMAIN storeAtFetch : storeAtFetch[k].origin = callId
    /\ returned = storeAtFetch

\* a request of this call whose validation had finished when the results
\* were fetched, and for which the call returned a synthesized record
LostCompleted ==
    {i \in doneAtFetch :
        \E j \in DOMAIN returned :
            /\ Synthesized(returned[j])
            /\ IsMissingRecord(returned[j], for_settings[i])}

\* the returned records that the engine wrote for the other thread's call
FromOtherCall == {j \in DOMAIN returned : returned[j].origin = OtherCall}

\* C17: two overlapping calls on the same storage path are unsafe: a call
\* can return a synthesized "completion event missing" record for a request
\* whose validation did complete, or a record of the other call's batch. The
\* first happens in the call during which the other thread cleared the file,
\* and only there; the second only once the other thread has dispatched.
C17_OverlapUnsafe ==
    Completed =>
        /\ LostCompleted # {} =>
              (otherPc # "none" /\ otherUnlinkedIn = callId)
        /\ FromOtherCall # {} => otherPc = "dispatched"
        /\ (otherPc = "none" \/ otherUnlinkedIn # callId) =>
              \A i \in doneAtFetch :
                  \E j \in DOMAIN returned :
                      /\ ~Synthesized(returned[j])
                      /\ returned[j].tflite_settings = for_settings[i]

\* the other thread cleared the file after this call's validation had written
\* its event and then had its own request validated: this call returns the
\* other call's record and reports its own finished validation as missing
C17_Witness ==
    /\ Completed
    /\ N = 1
    /\ doneAtFetch = {1}
    /\ LostCompleted = {1}
    /\ FromOtherCall = {1}
    /\ Len(returned) = 2
    /\ returned[1].tflite_settings # for_settings[1]
    /\ otherUnlinkedIn = callId
====
